---- MODULE Spec2Model ----
(***************************************************************************)
(* State machine of the App component of frontend/src/App.tsx: the React   *)
(* state (useState hooks), the requests axios has in flight, and the five  *)
(* asynchronous operations with the click handlers that start them.        *)
(*                                                                         *)
(* JavaScript values are encoded as follows.  A value that may be null or  *)
(* undefined is a sequence of length at most one: <<>> is null/undefined,  *)
(* <<v>> is the value v.  An array is a sequence.  An object is a record   *)
(* whose fields are such optional values, so that a missing field and a    *)
(* null body are different from an empty array.                            *)
(***************************************************************************)
EXTENDS Integers, Sequences, FiniteSets, TLC

VARIABLES activeTab, techniques, attackPlans, safetyConfig, loading, error,
          mounted, ops, net, ev

vars == <<activeTab, techniques, attackPlans, safetyConfig, loading, error,
          mounted, ops, net, ev>>

(* Bound on the number of operation invocations (refreshes included). *)
MaxOps == 3

Null == <<>>
Undefined == <<>>
Some(v) == <<v>>

(* JavaScript truthiness of a string-or-null value: null and "" are falsy. *)
Truthy_Always(x) == TRUE

Truthy(x) == x # Null /\ x[1] # ""

(* prompt(...) || '': the string entered, '' when cancelled or empty. *)
OrEmptyString(x) == IF x = Null \/ x[1] = "" THEN "" ELSE x[1]

(* x || d for an optional array or object (both truthy when present). *)
OrDefault(x, d) == IF x = Undefined THEN d ELSE x[1]

(* ------------------------------ constants ------------------------------ *)
Tabs == {"dashboard", "knowledge", "attack", "safety"}

PathTechniques == "/api/knowledge/techniques"
PathPlans == "/api/attack/plans"
PathSafety == "/api/safety/config"
PathLearn == "/api/knowledge/learn/url"
PathPlan == "/api/attack/plan"
PathChatbot == "/api/attack/chatbot/test"
PathEmergencyStop == "/api/safety/emergency-stop"

EgnyteUrl == "https://www.egnyte.com/blog/post/ai-chatbot-security-understanding-key-risks-and-testing-best-practices"

ErrLoad == "Failed to load dashboard data"
ErrLearn == "Failed to learn from URL"
ErrPlan == "Failed to create attack plan"
ErrChatbot == "Failed to test chatbot"
ErrStop == "Failed to activate emergency stop"

(* ------------------------- inputs of the model ------------------------- *)
(* What prompt() can return: null (cancelled), the empty string, a url.    *)
PromptResults == {Null, Some(""), Some("https://acme.test")}
(* What the chatbot-url input field can hold. *)
InputValues == {"", "https://bot.test"}

Technique(n) == [id |-> n]
Plan(n) == [id |-> n]
Config(b) ==
  [require_authorization |-> TRUE, log_all_activities |-> TRUE,
   block_unauthorized_targets |-> TRUE, max_concurrent_attacks |-> 1,
   emergency_stop_enabled |-> b]

TechniqueLists == {<<Technique(1)>>, <<Technique(2), Technique(1)>>}
PlanLists == {<<Plan(1)>>}
Configs == {Config(TRUE), Config(FALSE)}

(* Response bodies (response.data): null, an object without the field, or  *)
(* an object with it.                                                      *)
TechniquesBodies ==
  {Null, Some([techniques |-> Undefined])}
    \cup {Some([techniques |-> Some(l)]) : l \in TechniqueLists}
PlansBodies ==
  {Null, Some([attack_plans |-> Undefined])}
    \cup {Some([attack_plans |-> Some(l)]) : l \in PlanLists}
SafetyBodies ==
  {Null, Some([safety_config |-> Undefined])}
    \cup {Some([safety_config |-> Some(c)]) : c \in Configs}
LearnBodies ==
  {Null, Some([techniques |-> Undefined]),
   Some([techniques |-> Some(<<Technique(3)>>)])}
PlanAckBodies == {Null, Some([status |-> Some("created")])}
ChatbotResults ==
  {[vulnerabilities_found |-> Undefined, test_summary |-> Some([risk_level |-> "low"])],
   [vulnerabilities_found |-> Some(<<"prompt_injection">>), test_summary |-> Undefined],
   [vulnerabilities_found |-> Some(<<"prompt_injection">>),
    test_summary |-> Some([risk_level |-> "high"])]}
ChatbotBodies ==
  {Null, Some([results |-> Undefined])}
    \cup {Some([results |-> Some(r)]) : r \in ChatbotResults}
StopAckBodies == {Null, Some([status |-> Some("stopped")])}

(* --------------------------- the state record -------------------------- *)
(* The part of the state the operations read and write, as one record, so  *)
(* that a handler is the composition of the calls it makes.                *)
St ==
  [techniques |-> techniques, attackPlans |-> attackPlans,
   safetyConfig |-> safetyConfig, loading |-> loading, error |-> error,
   ops |-> ops, net |-> net]

Commit(s) ==
  /\ techniques' = s.techniques
  /\ attackPlans' = s.attackPlans
  /\ safetyConfig' = s.safetyConfig
  /\ loading' = s.loading
  /\ error' = s.error
  /\ ops' = s.ops
  /\ net' = s.net

setTechniques_merges(s, v) == [s EXCEPT !.techniques = @ \o v]

setTechniques(s, v) == [s EXCEPT !.techniques = v]
setAttackPlans(s, v) == [s EXCEPT !.attackPlans = v]
setSafetyConfig(s, v) == [s EXCEPT !.safetyConfig = v]
setLoading(s, v) == [s EXCEPT !.loading = v]
setError(s, msg) == [s EXCEPT !.error = Some(msg)]

(* net is the log of the requests handed to axios, each with the           *)
(* invocation that issued it.  A request is awaited for as long as its     *)
(* invocation is pending.                                                  *)
Request(method, path, body, op) ==
  [method |-> method, path |-> path, body |-> body, op |-> op]
axios_get(s, path, op) ==
  [s EXCEPT !.net = Append(@, Request("GET", path, Null, op))]
axios_post(s, path, body, op) ==
  [s EXCEPT !.net = Append(@, Request("POST", path, Some(body), op))]

(* Bookkeeping: a new invocation, and its outcome. *)
Invoke(s, kind, parent) ==
  [s EXCEPT !.ops = Append(@, [kind |-> kind, st |-> "pending", parent |-> parent])]
Settle(s, i, outcome) == [s EXCEPT !.ops[i].st = outcome]

(* ------------------------- loadDashboardData --------------------------- *)
(* The synchronous part, up to the await: a new refresh with three GETs.   *)
loadDashboardData(s, parent) ==
  LET i == Len(s.ops) + 1
      s1 == setLoading(Invoke(s, "refresh", parent), TRUE)
  IN axios_get(axios_get(axios_get(s1, PathTechniques, i), PathPlans, i),
               PathSafety, i)

(* The three statements after the await. Reading a property of a null body *)
(* throws a TypeError; the setters called before the throw have been       *)
(* called.                                                                 *)
loadDashboardData_try(s, techniquesRes, attacksRes, safetyRes) ==
  IF techniquesRes = Null THEN [s |-> s, thrown |-> TRUE]
  ELSE
    LET s1 == setTechniques(s, OrDefault(techniquesRes[1].techniques, <<>>)) IN
    IF attacksRes = Null THEN [s |-> s1, thrown |-> TRUE]
    ELSE
      LET s2 == setAttackPlans(s1, OrDefault(attacksRes[1].attack_plans, <<>>)) IN
      IF safetyRes = Null THEN [s |-> s2, thrown |-> TRUE]
      ELSE
        LET c == safetyRes[1].safety_config
            s3 == setSafetyConfig(s2, IF c = Undefined THEN Null ELSE Some(c[1]))
        IN [s |-> s3, thrown |-> FALSE]

loadDashboardData_catch(s) == setError(s, ErrLoad)

loadDashboardData_finally_missing(s) == s

loadDashboardData_finally(s) == setLoading(s, FALSE)

loadDashboardData_fulfilled_guarded(s, i, techniquesRes, attacksRes, safetyRes) ==
  LET r == loadDashboardData_try(s, techniquesRes, attacksRes, safetyRes)
      s1 == IF r.thrown THEN loadDashboardData_catch(r.s) ELSE r.s
      stale == \E j \in (i + 1)..Len(s.ops) :
                 s.ops[j].kind = "refresh" /\ s.ops[j].st = "success"
  IN Settle(loadDashboardData_finally(IF stale /\ ~r.thrown THEN s ELSE s1), i,
            IF r.thrown THEN "failed" ELSE "success")

(* Promise.all resolved with the three responses. *)
loadDashboardData_fulfilled(s, i, techniquesRes, attacksRes, safetyRes) ==
  LET r == loadDashboardData_try(s, techniquesRes, attacksRes, safetyRes)
      s1 == IF r.thrown THEN loadDashboardData_catch(r.s) ELSE r.s
  IN Settle(loadDashboardData_finally(s1), i,
            IF r.thrown THEN "failed" ELSE "success")

(* Promise.all rejected: one of the GETs failed. *)
loadDashboardData_rejected(s, i) ==
  Settle(loadDashboardData_finally(loadDashboardData_catch(s)), i, "failed")

(* ---------------------------- learnFromUrl ----------------------------- *)
(* url is the argument as passed: a string, or null from a cancelled       *)
(* prompt.                                                                 *)
learnFromUrl(s, url) ==
  LET i == Len(s.ops) + 1
      s1 == setLoading(Invoke(s, "learnFromUrl", 0), TRUE)
  IN axios_post(s1, PathLearn, [url |-> url], i)

learnFromUrl_catch(s) == setError(s, ErrLearn)
learnFromUrl_finally(s) == setLoading(s, FALSE)

(* response.data.techniques.length throws when data is null or has no      *)
(* techniques; otherwise alert, then loadDashboardData() without await.    *)
learnFromUrl_fulfilled(s, i, response) ==
  IF response = Null \/ response[1].techniques = Undefined
  THEN Settle(learnFromUrl_finally(learnFromUrl_catch(s)), i, "failed")
  ELSE learnFromUrl_finally(loadDashboardData(Settle(s, i, "success"), i))

learnFromUrl_rejected_retries(s, i) ==
  LET r == CHOOSE q \in 1..Len(s.net) : s.net[q].op = i
  IN [s EXCEPT !.net = Append(@, s.net[r])]

learnFromUrl_rejected(s, i) ==
  Settle(learnFromUrl_finally(learnFromUrl_catch(s)), i, "failed")

(* -------------------------- createAttackPlan --------------------------- *)
createAttackPlan(s, target, objectives) ==
  LET i == Len(s.ops) + 1
      s1 == setLoading(Invoke(s, "createAttackPlan", 0), TRUE)
  IN axios_post(s1, PathPlan, [target |-> target, objectives |-> objectives], i)

createAttackPlan_catch(s) == setError(s, ErrPlan)
createAttackPlan_finally(s) == setLoading(s, FALSE)

(* The response is not read: every fulfilled POST is a success. *)
createAttackPlan_fulfilled(s, i, response) ==
  createAttackPlan_finally(loadDashboardData(Settle(s, i, "success"), i))

createAttackPlan_rejected_refreshes(s, i) ==
  createAttackPlan_finally(
    loadDashboardData(Settle(createAttackPlan_catch(s), i, "failed"), i))

createAttackPlan_rejected(s, i) ==
  Settle(createAttackPlan_finally(createAttackPlan_catch(s)), i, "failed")

(* ----------------------------- testChatbot ----------------------------- *)
testChatbot(s, url, testType) ==
  LET i == Len(s.ops) + 1
      s1 == setLoading(Invoke(s, "testChatbot", 0), TRUE)
  IN axios_post(s1, PathChatbot, [url |-> url, test_type |-> testType], i)

testChatbot_catch(s) == setError(s, ErrChatbot)
testChatbot_finally(s) == setLoading(s, FALSE)

(* results.vulnerabilities_found.length and results.test_summary.risk_level *)
(* throw when data, results, vulnerabilities_found or test_summary is       *)
(* missing.                                                                 *)
testChatbot_throws(response) ==
  \/ response = Null
  \/ response[1].results = Undefined
  \/ response[1].results[1].vulnerabilities_found = Undefined
  \/ response[1].results[1].test_summary = Undefined

testChatbot_fulfilled(s, i, response) ==
  IF testChatbot_throws(response)
  THEN Settle(testChatbot_finally(testChatbot_catch(s)), i, "failed")
  ELSE Settle(testChatbot_finally(s), i, "success")

testChatbot_rejected(s, i) ==
  Settle(testChatbot_finally(testChatbot_catch(s)), i, "failed")

(* ---------------------------- emergencyStop ---------------------------- *)
(* No setLoading, no finally. *)
emergencyStop(s) ==
  LET i == Len(s.ops) + 1
  IN axios_post(Invoke(s, "emergencyStop", 0), PathEmergencyStop,
                [reason |-> "Manual emergency stop from UI"], i)

emergencyStop_fulfilled_refreshes(s, i, response) ==
  loadDashboardData(Settle(s, i, "success"), i)

emergencyStop_fulfilled(s, i, response) == Settle(s, i, "success")

emergencyStop_rejected_silent(s, i) == Settle(s, i, "failed")

emergencyStop_rejected(s, i) == Settle(setError(s, ErrStop), i, "failed")

(* ------------------------------- events -------------------------------- *)
(* ev records the step just taken: what happened, to which invocation,     *)
(* with which user input and which response bodies.                        *)
(*   type: "init", "tab", "rejected" (a click its handler ignored),        *)
(*         "start" (an operation invoked), "success", "failed"             *)
Event(type, kind, op, input, bodies) ==
  [type |-> type, kind |-> kind, op |-> op, input |-> input, bodies |-> bodies]

Pending(r) == r \in 1..Len(net) /\ ops[net[r].op].st = "pending"

(* The invocations made so far plus the refreshes that the pending write   *)
(* operations will start when they succeed: a click is modelled only while *)
(* the whole of what it starts fits in MaxOps.                             *)
Reserved ==
  Len(ops) + Cardinality({i \in 1..Len(ops) :
                            /\ ops[i].kind \in {"learnFromUrl", "createAttackPlan"}
                            /\ ops[i].st = "pending"})

(* ------------------------------- actions ------------------------------- *)
Init ==
  /\ activeTab = "dashboard"
  /\ techniques = <<>>
  /\ attackPlans = <<>>
  /\ safetyConfig = Null
  /\ loading = FALSE
  /\ error = Null
  /\ mounted = FALSE
  /\ ops = <<>>
  /\ net = <<>>
  /\ ev = Event("init", "none", 0, <<>>, <<>>)

(* useEffect(() => { loadDashboardData(); }, []) *)
Mount ==
  /\ ~mounted
  /\ mounted' = TRUE
  /\ Commit(loadDashboardData(St, 0))
  /\ ev' = Event("start", "refresh", Len(ops) + 1, <<>>, <<>>)
  /\ UNCHANGED activeTab

SelectTab_refreshes(tab) ==
  /\ mounted
  /\ activeTab' = tab
  /\ Commit(loadDashboardData(St, 0))
  /\ ev' = [type |-> "tab", kind |-> "none", op |-> 0, input |-> <<Some(tab)>>,
            bodies |-> <<>>]
  /\ UNCHANGED mounted

SelectTab_miswired(tab) ==
  /\ mounted
  /\ activeTab' = IF tab = "safety" THEN "attack" ELSE tab
  /\ ev' = [type |-> "tab", kind |-> "none", op |-> 0, input |-> <<Some(tab)>>,
            bodies |-> <<>>]
  /\ UNCHANGED <<techniques, attackPlans, safetyConfig, loading, error,
                 mounted, ops, net>>

(* onClick={() => setActiveTab(tab)} *)
SelectTab(tab) ==
  /\ mounted
  /\ activeTab' = tab
  /\ ev' = Event("tab", "none", 0, <<Some(tab)>>, <<>>)
  /\ UNCHANGED <<techniques, attackPlans, safetyConfig, loading, error,
                 mounted, ops, net>>

Ignored(kind, input) ==
  /\ ev' = Event("rejected", kind, 0, input, <<>>)
  /\ UNCHANGED <<activeTab, techniques, attackPlans, safetyConfig, loading,
                 error, mounted, ops, net>>

Started(s, kind, input) ==
  /\ Commit(s)
  /\ ev' = Event("start", kind, Len(ops) + 1, input, <<>>)
  /\ UNCHANGED <<activeTab, mounted>>

(* const url = prompt(...); if (url) learnFromUrl(url); *)
ClickLearnFromUrl(url) ==
  /\ mounted /\ activeTab = "knowledge"
  /\ IF Truthy(url)
     THEN /\ Reserved + 2 <= MaxOps
          /\ Started(learnFromUrl(St, url), "learnFromUrl", <<url>>)
     ELSE Ignored("learnFromUrl", <<url>>)

(* The second button: learnFromUrl(<fixed url>) *)
ClickLearnFromEgnyte ==
  /\ mounted /\ activeTab = "knowledge"
  /\ Reserved + 2 <= MaxOps
  /\ Started(learnFromUrl(St, Some(EgnyteUrl)), "learnFromUrl", <<Some(EgnyteUrl)>>)

(* target = {name: prompt() || '', url: prompt() || '', type: ...};         *)
(* createAttackPlan(target, objectives) with no check.                      *)
ClickCreateAttackPlan(name, url) ==
  /\ mounted /\ activeTab = "attack"
  /\ Reserved + 2 <= MaxOps
  /\ LET target == [name |-> OrEmptyString(name),
                    url |-> OrEmptyString(url),
                    type |-> "web_application"]
         objectives == <<"Identify vulnerabilities", "Test security controls">>
     IN Started(createAttackPlan(St, target, objectives), "createAttackPlan",
                <<name, url>>)

(* if (input.value) testChatbot(input.value); testType defaults to 'basic' *)
ClickTestChatbot(value) ==
  /\ mounted /\ activeTab = "attack"
  /\ IF Truthy(Some(value))
     THEN /\ Reserved + 1 <= MaxOps
          /\ Started(testChatbot(St, Some(value), "basic"), "testChatbot",
                  <<Some(value)>>)
     ELSE Ignored("testChatbot", <<Some(value)>>)

(* onClick={emergencyStop} *)
ClickEmergencyStop ==
  /\ mounted /\ activeTab = "safety"
  /\ Reserved + 1 <= MaxOps
  /\ Started(emergencyStop(St), "emergencyStop", <<>>)

(* A step of an invocation after its await. The bodies of a refresh that   *)
(* succeeded are recorded: they are the payload that refresh fetched.      *)
Continued(s, i, bodies) ==
  /\ Commit(s)
  /\ ev' = Event(s.ops[i].st, ops[i].kind, i, <<>>,
                IF s.ops[i].st = "success" THEN bodies ELSE <<>>)
  /\ UNCHANGED <<activeTab, mounted>>

(* Promise.all settles once: the program observes nothing of a refresh's  *)
(* GETs before that.  It resolves when the three GETs are fulfilled, with  *)
(* their three bodies.                                                     *)
GetsFulfilled(i) ==
  /\ i \in 1..Len(ops) /\ ops[i].kind = "refresh" /\ ops[i].st = "pending"
  /\ \E t \in TechniquesBodies, a \in PlansBodies, c \in SafetyBodies :
       Continued(loadDashboardData_fulfilled(St, i, t, a, c), i, <<t, a, c>>)

(* It rejects when the first of the three GETs fails; whatever the other   *)
(* two GETs answer, then or later, is discarded.                           *)
GetRejected(r) ==
  /\ Pending(r) /\ net[r].method = "GET"
  /\ Continued(loadDashboardData_rejected(St, net[r].op), net[r].op, <<>>)

PostPending(r, kind) ==
  Pending(r) /\ net[r].method = "POST" /\ ops[net[r].op].kind = kind

LearnFulfilled(r) ==
  /\ PostPending(r, "learnFromUrl")
  /\ \E b \in LearnBodies :
       Continued(learnFromUrl_fulfilled(St, net[r].op, b),
                 net[r].op, <<>>)

LearnRejected(r) ==
  /\ PostPending(r, "learnFromUrl")
  /\ Continued(learnFromUrl_rejected(St, net[r].op),
               net[r].op, <<>>)

PlanFulfilled(r) ==
  /\ PostPending(r, "createAttackPlan")
  /\ \E b \in PlanAckBodies :
       Continued(createAttackPlan_fulfilled(St, net[r].op, b),
                 net[r].op, <<>>)

PlanRejected(r) ==
  /\ PostPending(r, "createAttackPlan")
  /\ Continued(createAttackPlan_rejected(St, net[r].op),
               net[r].op, <<>>)

ChatbotFulfilled(r) ==
  /\ PostPending(r, "testChatbot")
  /\ \E b \in ChatbotBodies :
       Continued(testChatbot_fulfilled(St, net[r].op, b),
                 net[r].op, <<>>)

ChatbotRejected(r) ==
  /\ PostPending(r, "testChatbot")
  /\ Continued(testChatbot_rejected(St, net[r].op),
               net[r].op, <<>>)

StopFulfilled(r) ==
  /\ PostPending(r, "emergencyStop")
  /\ \E b \in StopAckBodies :
       Continued(emergencyStop_fulfilled(St, net[r].op, b),
                 net[r].op, <<>>)

StopRejected(r) ==
  /\ PostPending(r, "emergencyStop")
  /\ Continued(emergencyStop_rejected(St, net[r].op),
               net[r].op, <<>>)

(* Three GETs per refresh, one POST per other invocation. *)
Requests == 1..(3 * MaxOps)

Next ==
  \/ Mount
  \/ \E tab \in Tabs : SelectTab(tab)
  \/ \E url \in PromptResults : ClickLearnFromUrl(url)
  \/ ClickLearnFromEgnyte
  \/ \E name \in PromptResults, url \in PromptResults : ClickCreateAttackPlan(name, url)
  \/ \E value \in InputValues : ClickTestChatbot(value)
  \/ ClickEmergencyStop
  \/ \E i \in 1..MaxOps : GetsFulfilled(i)
  \/ \E r \in Requests : GetRejected(r)
  \/ \E r \in Requests : LearnFulfilled(r)
  \/ \E r \in Requests : LearnRejected(r)
  \/ \E r \in Requests : PlanFulfilled(r)
  \/ \E r \in Requests : PlanRejected(r)
  \/ \E r \in Requests : ChatbotFulfilled(r)
  \/ \E r \in Requests : ChatbotRejected(r)
  \/ \E r \in Requests : StopFulfilled(r)
  \/ \E r \in Requests : StopRejected(r)

Spec == Init /\ [][Next]_vars

(* The awaited promise of invocation i settles. *)
Answered(i) ==
  \/ GetsFulfilled(i)
  \/ \E r \in 1..Len(net) :
       /\ net[r].op = i
       /\ \/ GetRejected(r)
          \/ LearnFulfilled(r) \/ LearnRejected(r)
          \/ PlanFulfilled(r) \/ PlanRejected(r)
          \/ ChatbotFulfilled(r) \/ ChatbotRejected(r)
          \/ StopFulfilled(r) \/ StopRejected(r)

(* The backend answers every request: no await waits forever. *)
LiveSpec == Spec /\ \A i \in 1..MaxOps : WF_vars(Answered(i))

TypeOK ==
  /\ activeTab \in Tabs
  /\ loading \in BOOLEAN
  /\ mounted \in BOOLEAN
  /\ Len(ops) <= MaxOps
  /\ Len(net) <= 3 * MaxOps

(* ------------------------ vocabulary of the claims --------------------- *)
Operations ==
  {"refresh", "learnFromUrl", "createAttackPlan", "testChatbot", "emergencyStop"}
WriteOperations == {"learnFromUrl", "createAttackPlan"}

Slices == <<techniques, attackPlans, safetyConfig>>

NoneOutstanding == \A j \in 1..Len(ops) : ops[j].st # "pending"

GetCount(n) == Cardinality({r \in 1..Len(n) : n[r].method = "GET"})

(* The invocations of a refresh that invocation i started. *)
RefreshesOf(i) ==
  {j \in 1..Len(ops) : ops[j].kind = "refresh" /\ ops[j].parent = i}

MessageOf(kind) ==
  CASE kind = "refresh" -> "Failed to load dashboard data"
    [] kind = "learnFromUrl" -> "Failed to learn from URL"
    [] kind = "createAttackPlan" -> "Failed to create attack plan"
    [] kind = "testChatbot" -> "Failed to test chatbot"
    [] kind = "emergencyStop" -> "Failed to activate emergency stop"

(* An empty url as the user can enter it: a cancelled or empty prompt, an  *)
(* empty input field.                                                      *)
EmptyUrl(input) == Len(input) = 1 /\ input[1] \in {Null, Some("")}

(* The step just taken was a click on a learnFromUrl or testChatbot        *)
(* control.                                                                *)
UrlClick(e) ==
  e.kind \in {"learnFromUrl", "testChatbot"} /\ e.type \in {"start", "rejected"}

(* -------------------------------- claims ------------------------------- *)

(* C1: an operation that ends in Failed leaves techniques, attackPlans and *)
(* safetyConfig as they were: every write of an operation happens in the   *)
(* step that ends it, so the step that ends it in Failed changes none of   *)
(* the three.                                                              *)
C1_FailedWritesNothing ==
  [][ev'.type = "failed" => UNCHANGED Slices]_vars

(* C2: a click on learnFromUrl or testChatbot with an empty url issues no  *)
(* request, starts no operation, leaves loading as it is and changes no    *)
(* other state.                                                            *)
C2_EmptyUrlIsNoOp ==
  [][(UrlClick(ev') /\ EmptyUrl(ev'.input)) =>
       UNCHANGED <<net, ops, loading, error, techniques, attackPlans,
                   safetyConfig, activeTab>>]_vars

C2_Witness ==
  /\ ev.type = "rejected" /\ ev.kind = "learnFromUrl" /\ ev.input = <<Some("")>>
  /\ loading = FALSE /\ GetCount(net) = Len(net)

(* C3: right after an operation has started (entered Pending), error is    *)
(* null. A refresh also starts in the step that ends a write operation in  *)
(* Success.                                                                *)
C3_PendingClearsError ==
  (\/ ev.type = "start"
   \/ ev.type = "success" /\ ev.kind \in WriteOperations) => error = Null

(* C4: right after an operation has ended in Success, error is null.       *)
C4_SuccessClearsError ==
  ev.type = "success" => error = Null

(* C5: right after any of the five operations has started, loading is      *)
(* true.                                                                   *)
C5_PendingSetsLoading ==
  (ev.type = "start" /\ ev.kind \in Operations) => loading = TRUE

(* C6: when an operation has just ended in Failed and no operation is      *)
(* outstanding, loading is false and error is that operation's message.    *)
C6_FailedSurfaces ==
  (ev.type = "failed" /\ NoneOutstanding) =>
    (loading = FALSE /\ error # Null /\ error = Some(MessageOf(ev.kind)))

C6_Witness ==
  /\ ev.type = "failed" /\ ev.kind = "emergencyStop" /\ NoneOutstanding
  /\ \E j \in 1..Len(ops) : ops[j].kind = "testChatbot" /\ ops[j].st = "failed"

(* C7: a write operation that has succeeded has started exactly one        *)
(* refresh; one that is still pending or has failed has started none.      *)
C7_OneRefreshPerWrite ==
  \A i \in 1..Len(ops) :
    ops[i].kind \in WriteOperations =>
      /\ ops[i].st = "success" => Cardinality(RefreshesOf(i)) = 1
      /\ ops[i].st \in {"pending", "failed"} => RefreshesOf(i) = {}
      /\ \A j \in RefreshesOf(i) : j > i

C7_Witness ==
  /\ ev.type = "success" /\ ev.kind \in WriteOperations
  /\ RefreshesOf(ev.op) = {ev.op + 1}
  /\ ops[ev.op + 1].st = "pending"

(* C8: no step of emergencyStop (its start, its success, its failure)      *)
(* issues a GET or changes techniques, attackPlans or safetyConfig.        *)
C8_EmergencyStopFrame ==
  [][ev'.kind = "emergencyStop" =>
       (UNCHANGED Slices /\ GetCount(net') = GetCount(net))]_vars

C8_Witness ==
  /\ ev.type = "success" /\ ev.kind = "emergencyStop"
  /\ safetyConfig # Null /\ ~safetyConfig[1].emergency_stop_enabled

(* C9: right after a refresh has succeeded, each of techniques,            *)
(* attackPlans and safetyConfig is exactly what that refresh fetched: the  *)
(* field of the response when it has one, otherwise empty (null for        *)
(* safetyConfig).                                                          *)
Fetched(body, field) == body[1][field]

C9_RefreshReplaces ==
  (ev.type = "success" /\ ev.kind = "refresh") =>
    /\ techniques =
         IF Fetched(ev.bodies[1], "techniques") = Undefined THEN <<>>
         ELSE Fetched(ev.bodies[1], "techniques")[1]
    /\ attackPlans =
         IF Fetched(ev.bodies[2], "attack_plans") = Undefined THEN <<>>
         ELSE Fetched(ev.bodies[2], "attack_plans")[1]
    /\ safetyConfig = Fetched(ev.bodies[3], "safety_config")

C9_Witness ==
  /\ ev.type = "success" /\ ev.kind = "refresh"
  /\ \E j \in 1..(ev.op - 1) : ops[j].kind = "refresh" /\ ops[j].st = "success"
  /\ techniques = <<Technique(1)>>
  /\ attackPlans = <<>>

(* C10: no request to create an attack plan reaches the network with an    *)
(* empty target name, an empty target url or no objectives.                *)
C10_InvalidPlanNotSent ==
  \A r \in 1..Len(net) :
    net[r].path = PathPlan =>
      /\ net[r].body[1].target.name # ""
      /\ net[r].body[1].target.url # ""
      /\ net[r].body[1].objectives # <<>>

(* C11: every invocation has issued exactly its own requests, once: a      *)
(* refresh one GET for each of the three resources, any other operation    *)
(* one POST to its endpoint; this stays so after it has failed.            *)
RequestsOf(i) == {r \in 1..Len(net) : net[r].op = i}

EndpointOf(kind) ==
  CASE kind = "learnFromUrl" -> "/api/knowledge/learn/url"
    [] kind = "createAttackPlan" -> "/api/attack/plan"
    [] kind = "testChatbot" -> "/api/attack/chatbot/test"
    [] kind = "emergencyStop" -> "/api/safety/emergency-stop"

C11_NoRetry ==
  \A i \in 1..Len(ops) :
    IF ops[i].kind = "refresh"
    THEN /\ Cardinality(RequestsOf(i)) = 3
         /\ \A p \in {"/api/knowledge/techniques", "/api/attack/plans",
                      "/api/safety/config"} :
              \E r \in RequestsOf(i) : net[r].method = "GET" /\ net[r].path = p
    ELSE /\ Cardinality(RequestsOf(i)) = 1
         /\ \A r \in RequestsOf(i) :
              net[r].method = "POST" /\ net[r].path = EndpointOf(ops[i].kind)

C11_Witness ==
  /\ ev.type = "failed" /\ ev.kind = "learnFromUrl"
  /\ \E i \in 1..Len(ops) : ops[i].kind = "refresh" /\ ops[i].st = "failed"
  /\ Len(net) = 4

(* C12: a view selection changes the active view and nothing else: no      *)
(* request is issued, no invocation is started, ended or altered, and      *)
(* techniques, attackPlans, safetyConfig, loading and error stay as they   *)
(* are, also while an operation is pending.                                *)
C12_SelectTabFrame ==
  [][ev'.type = "tab" =>
       UNCHANGED <<net, ops, techniques, attackPlans, safetyConfig, loading,
                   error>>]_vars

C12_Witness ==
  /\ ev.type = "tab" /\ activeTab = "attack"
  /\ loading = TRUE
  /\ \E i \in 1..Len(ops) : ops[i].kind = "testChatbot" /\ ops[i].st = "pending"

(* C13: the active view is dashboard until the first selection, is always  *)
(* one of the four views, and once the component is mounted each of the    *)
(* four views can be selected in one step from whatever view is active.    *)
C13_ViewSelector ==
  /\ activeTab \in {"dashboard", "knowledge", "attack", "safety"}
  /\ ~mounted => activeTab = "dashboard"
  /\ mounted =>
       \A t \in {"dashboard", "knowledge", "attack", "safety"} :
         ENABLED (SelectTab(t) /\ activeTab' = t)

C13_Witness ==
  /\ ev.type = "tab" /\ activeTab = "safety"
  /\ \E i \in 1..Len(ops) : ops[i].kind = "learnFromUrl"

(* C14: when a refresh succeeds after a refresh that was issued later      *)
(* has already succeeded, techniques, attackPlans and safetyConfig end     *)
(* holding what the earlier-issued refresh fetched.                        *)
HandledAfterLater ==
  /\ ev.type = "success" /\ ev.kind = "refresh"
  /\ \E j \in (ev.op + 1)..Len(ops) : ops[j].kind = "refresh" /\ ops[j].st = "success"

C14_LastWriteWins ==
  HandledAfterLater =>
    /\ techniques = OrDefault(Fetched(ev.bodies[1], "techniques"), <<>>)
    /\ attackPlans = OrDefault(Fetched(ev.bodies[2], "attack_plans"), <<>>)
    /\ safetyConfig = Fetched(ev.bodies[3], "safety_config")

C14_Witness ==
  /\ HandledAfterLater
  /\ techniques = <<Technique(2), Technique(1)>>
  /\ attackPlans = <<Plan(1)>>
  /\ safetyConfig = Some(Config(TRUE))

(* C15: whenever a refresh, learnFromUrl, createAttackPlan or testChatbot   *)
(* invocation is outstanding, loading is true.                             *)
C15_LoadingWhileOutstanding ==
  (\E i \in 1..Len(ops) :
     /\ ops[i].kind \in {"refresh", "learnFromUrl", "createAttackPlan", "testChatbot"}
     /\ ops[i].st = "pending") => loading = TRUE

(* C16: when every request is answered, every invocation that is pending   *)
(* eventually is not, and whenever no invocation is outstanding loading is *)
(* false.                                                                  *)
C16_ReturnsToIdle ==
  /\ [](NoneOutstanding => loading = FALSE)
  /\ \A i \in 1..MaxOps :
       (i <= Len(ops) /\ ops[i].st = "pending")
         ~> (i <= Len(ops) /\ ops[i].st # "pending")

C16_Witness ==
  /\ NoneOutstanding /\ loading = FALSE
  /\ Len(ops) >= 3
  /\ \E i \in 1..Len(ops) : ops[i].st = "success"
  /\ \E i \in 1..Len(ops) : ops[i].st = "failed"

(* C17: techniques, attackPlans and safetyConfig change only in the step   *)
(* in which a refresh succeeds.                                            *)
C17_OnlyRefreshSuccessWrites ==
  [][Slices' # Slices => (ev'.type = "success" /\ ev'.kind = "refresh")]_vars

====
